---- MODULE Spec2Model ----
(***************************************************************************)
(* Model of the OxideKit VS Code extension (src/src/extension.ts): binary  *)
(* discovery (findOxideLsp), the language-client lifecycle (startLspClient,*)
(* restartLsp) and the activation / deactivation entry points.             *)
(*                                                                         *)
(* The extension runs on a single-threaded event loop.  Every `await` is a *)
(* suspension point; a continuation whose awaited promise has settled runs *)
(* (as a microtask) before any new command invocation or I/O event.        *)
(*                                                                         *)
(* LanguageClient is a library object.  The extension awaits both          *)
(* client.stop() (l.55, l.329) and client.start() (l.330), so both are     *)
(* modelled as promise-returning calls on the client's documented state    *)
(* machine (Initial, Starting, Running, StartFailed, Stopping, Stopped):   *)
(* the start promise settles when the launch succeeds or fails, the stop   *)
(* promise when the shutdown is over.  The extension never reads the       *)
(* client's state: every call it makes is recorded in lastCall together    *)
(* with the state the call met.                                            *)
(*                                                                         *)
(* Continuations that become ready together may run in any order here; the *)
(* event loop runs them in registration order, which is one of them.       *)
(***************************************************************************)
EXTENDS Integers, Sequences, FiniteSets, TLC

VARIABLES
    cfgPath,            \* value of the setting oxidekit.lsp.path
    workspaceFolders,   \* vscode.workspace.workspaceFolders
    existing,           \* paths for which workspace.fs.stat succeeds
    whichOut,           \* outcome of `which oxide-lsp`
    client,             \* module-level `client` (l.21)
    clientState,        \* state of the LanguageClient object
    devServerTerminal,  \* module-level `devServerTerminal` (l.22)
    serverPath,         \* local `serverPath` of startLspClient
    probed,             \* candidates passed to fs.stat, in order
    whichRan,           \* whether execSync(which) was executed
    actPc,              \* position of activate()
    registered,         \* what activate() has registered so far
    rpc, rwait,         \* position / awaited promise of each restartLsp call
    ron,                \* handle state when each restartLsp call was invoked
    rstops, rstarts, rinfos, rend, rbase,
    dpc, dwait,         \* position / awaited promise of deactivate()
    deactivations,      \* number of deactivate() invocations so far
    dstops,             \* client.stop() calls issued by each deactivate()
    disposals,          \* devServerTerminal.dispose() calls by deactivate()
    dtrace,             \* steps of the latest deactivate(), in program order
    warnings,           \* showWarningMessage calls
    infos,              \* showInformationMessage calls of restartLsp
    libErrors,          \* error notifications raised by the client library
    created,            \* LanguageClient objects constructed
    resolutions,        \* times the server path was resolved
    spawned,            \* commands of the server processes spawned
    launched,           \* successful launches so far
    lastCall,           \* last call made on the client and the state it met
    hostErrors          \* rejections that reached the extension host

vars == << cfgPath, workspaceFolders, existing, whichOut, client, clientState,
           devServerTerminal, serverPath, probed, whichRan, actPc, registered,
           rpc, rwait, ron, rstops, rstarts, rinfos, rend, rbase,
           dpc, dwait, deactivations, dstops, disposals, dtrace,
           warnings, infos, libErrors, created, resolutions, spawned,
           launched, lastCall, hostErrors >>

---------------------------------------------------------------------------
(* Bounds *)
MaxRoots == 2
MaxRestarts == 2
MaxDeactivations == 2

---------------------------------------------------------------------------
(* JavaScript values *)
Undefined == "<undefined>"

\* `!serverPath` (l.67, l.72): undefined and the empty string are falsy
Falsy(s) == s = Undefined \/ s = ""

RootNames == <<"/proj", "/lib", "/app", "/srv">>
Roots == { RootNames[i] : i \in 1..MaxRoots }
ExtensionPath == "/ext"
ConfiguredPath == "/custom/oxide-lsp"

\* path.join(base, 'target', kind, 'oxide-lsp') and path.join(base, 'bin', 'oxide-lsp')
PathJoin(base, segs) ==
    LET RECURSIVE J(_, _)
        J(acc, i) == IF i > Len(segs) THEN acc ELSE J(acc \o "/" \o segs[i], i + 1)
    IN J(base, 1)

\* localPaths (l.130-133): release build first, then debug build
localPathsSwapped(folder) ==
    << PathJoin(folder, <<"target", "debug", "oxide-lsp">>),
       PathJoin(folder, <<"target", "release", "oxide-lsp">>) >>

localPaths(folder) ==
    << PathJoin(folder, <<"target", "release", "oxide-lsp">>),
       PathJoin(folder, <<"target", "debug", "oxide-lsp">>) >>

\* bundledPath (l.147)
bundledPath == PathJoin(ExtensionPath, <<"bin", "oxide-lsp">>)

\* vscode.workspace.fs.stat(uri) resolves iff the path exists; it rejects otherwise
StatOk(p) == p \in existing

\* l.135-142 with a failed stat ending the search instead of being swallowed
RECURSIVE ProbeLocalAbort(_, _, _)
ProbeLocalAbort(paths, i, trace) ==
    IF i > Len(paths) THEN [found |-> FALSE, path |-> Undefined, trace |-> trace]
    ELSE IF StatOk(paths[i])
         THEN [found |-> TRUE, path |-> paths[i], trace |-> Append(trace, paths[i])]
         ELSE [found |-> FALSE, path |-> Undefined, trace |-> Append(trace, paths[i])]

\* for (const localPath of localPaths) try { await stat; return } catch {} (l.135-142)
\* r = [found, path, trace]
RECURSIVE ProbeLocal(_, _, _)
ProbeLocal(paths, i, trace) ==
    IF i > Len(paths) THEN [found |-> FALSE, path |-> Undefined, trace |-> trace]
    ELSE IF StatOk(paths[i])
         THEN [found |-> TRUE, path |-> paths[i], trace |-> Append(trace, paths[i])]
         ELSE ProbeLocal(paths, i + 1, Append(trace, paths[i]))

\* for (const folder of workspaceFolders) (l.129-143)
RECURSIVE ProbeFolders(_, _, _)
ProbeFolders(folders, k, trace) ==
    IF k > Len(folders) THEN [found |-> FALSE, path |-> Undefined, trace |-> trace]
    ELSE LET r == ProbeLocal(localPaths(folders[k]), 1, trace)
         IN IF r.found THEN r ELSE ProbeFolders(folders, k + 1, r.trace)

\* tokens of the stdout of `which oxide-lsp`
NL == "\n"
PathBin == "/usr/bin/oxide-lsp"
PathAlt == "/opt/bin/oxide-lsp"

\* String.prototype.trim on the token sequence: strips line terminators at both ends
RECURSIVE TrimLeft(_)
TrimLeft(t) == IF t # <<>> /\ Head(t) = NL THEN TrimLeft(Tail(t)) ELSE t

RECURSIVE TrimRight(_)
TrimRight(t) ==
    IF t # <<>> /\ t[Len(t)] = NL THEN TrimRight(SubSeq(t, 1, Len(t) - 1)) ELSE t

Trim(t) == TrimRight(TrimLeft(t))

\* split('\n')[0]: the text before the first line terminator
RECURSIVE FirstLine(_)
FirstLine(t) ==
    IF t = <<>> \/ Head(t) = NL THEN "" ELSE Head(t) \o FirstLine(Tail(t))

\* result.trim().split('\n')[0] (l.160)
WhichResult(stdout) == FirstLine(Trim(stdout))

\* findOxideLsp (l.125-166): r = [path, probed, whichRan]
findOxideLsp ==
    LET ws == IF workspaceFolders.def
              THEN ProbeFolders(workspaceFolders.list, 1, <<>>)
              ELSE [found |-> FALSE, path |-> Undefined, trace |-> <<>>]
    IN IF ws.found
       THEN [path |-> ws.path, probed |-> ws.trace, whichRan |-> FALSE]
       ELSE IF StatOk(bundledPath)
            THEN [path |-> bundledPath, probed |-> Append(ws.trace, bundledPath),
                  whichRan |-> FALSE]
            ELSE [path |-> IF whichOut.ok THEN WhichResult(whichOut.stdout)
                           ELSE Undefined,
                  probed |-> Append(ws.trace, bundledPath),
                  whichRan |-> TRUE]

---------------------------------------------------------------------------
(* The environment the extension reads *)

\* lists of distinct workspace roots
FolderLists ==
    { f \in UNION { [1..n -> Roots] : n \in 0..MaxRoots } :
        \A i, j \in DOMAIN f : f[i] = f[j] => i = j }

WorkspaceFolderValues ==
    { [def |-> FALSE, list |-> <<>>] } \cup { [def |-> TRUE, list |-> f] : f \in FolderLists }

CandidatePaths ==
    { localPaths(r)[j] : r \in Roots, j \in 1..2 } \cup { bundledPath }

WhichOutcomes ==
    { [ok |-> FALSE, stdout |-> <<>>] } \cup
    { [ok |-> TRUE, stdout |-> o] :
        o \in { <<>>, <<NL>>, <<PathBin, NL>>, <<PathBin, NL, PathAlt, NL>> } }

ConfigValues == { Undefined, "", ConfiguredPath }

---------------------------------------------------------------------------
(* The LanguageClient object *)

Restarts == 1..MaxRestarts
Deactivations == 1..MaxDeactivations

NoClient == [def |-> FALSE, command |-> Undefined]

\* promise returned by client.stop() (l.55, l.329) for a client in state s:
\* a Running client starts stopping, a Stopping client hands out the pending
\* stop, a stopped client has nothing to do, any other state is refused
StopPromise(s) ==
    CASE s = "Running"  -> "onStop"
      [] s = "Stopping" -> "onStop"
      [] s \in {"Stopped", "Initial"} -> "resolved"
      [] OTHER -> "rejected"

StateAfterStop(s) == IF s = "Running" THEN "Stopping" ELSE s

\* promise returned by client.start() (l.119, l.330) for a client in state s
StartPromise(s) ==
    CASE s \in {"Initial", "Stopped"} -> "onStart"
      [] s = "Starting" -> "onStart"
      [] s = "Running"  -> "resolved"
      [] OTHER -> "rejected"

StateAfterStart(s) == IF s \in {"Initial", "Stopped"} THEN "Starting" ELSE s

\* the ConnectionHandle state that the module-level `client` stands for
HandleState ==
    IF ~client.def THEN "Absent"
    ELSE CASE clientState \in {"Initial", "Stopped", "StartFailed"} -> "Absent"
           [] OTHER -> clientState

\* a continuation whose awaited promise has settled is queued as a microtask
Settled(w) == w \in {"resolved", "rejected"}

MicrotaskPending ==
    \/ \E i \in Restarts : Settled(rwait[i])
    \/ Settled(dwait)

\* settle the promise `p` of every awaiting caller with outcome `o`
SettleAll(p, o) ==
    /\ rwait' = [i \in Restarts |-> IF rwait[i] = p THEN o ELSE rwait[i]]
    /\ dwait' = IF dwait = p THEN o ELSE dwait

---------------------------------------------------------------------------
(* Initial states *)

InitProgram ==
    /\ client = NoClient
    /\ clientState = "None"
    /\ devServerTerminal = Undefined
    /\ serverPath = Undefined
    /\ probed = <<>>
    /\ whichRan = FALSE
    /\ actPc = "idle"
    /\ registered = {}
    /\ rpc = [i \in Restarts |-> "idle"]
    /\ rwait = [i \in Restarts |-> "none"]
    /\ ron = [i \in Restarts |-> "none"]
    /\ rstops = [i \in Restarts |-> 0]
    /\ rstarts = [i \in Restarts |-> 0]
    /\ rinfos = [i \in Restarts |-> 0]
    /\ rend = [i \in Restarts |-> "none"]
    /\ rbase = [i \in Restarts |-> 0]
    /\ dpc = "idle"
    /\ dwait = "none"
    /\ deactivations = 0
    /\ dstops = [k \in Deactivations |-> 0]
    /\ disposals = 0
    /\ dtrace = <<>>
    /\ warnings = 0
    /\ infos = 0
    /\ libErrors = 0
    /\ created = 0
    /\ resolutions = 0
    /\ spawned = <<>>
    /\ launched = 0
    /\ lastCall = [op |-> "none", on |-> "none"]
    /\ hostErrors = 0

\* every environment within the bounds
InitActivate ==
    /\ cfgPath \in ConfigValues
    /\ workspaceFolders \in WorkspaceFolderValues
    /\ existing \in SUBSET (CandidatePaths \cup {ConfiguredPath})
    /\ whichOut \in WhichOutcomes
    /\ InitProgram

\* one workspace root; the lifecycle does not read the environment again
\* once the server path is resolved
Init ==
    /\ cfgPath \in ConfigValues
    /\ workspaceFolders = [def |-> TRUE, list |-> <<RootNames[1]>>]
    /\ existing \in SUBSET {localPaths(RootNames[1])[2]}
    /\ whichOut \in { [ok |-> FALSE, stdout |-> <<>>], [ok |-> TRUE, stdout |-> <<PathBin, NL>>] }
    /\ InitProgram

---------------------------------------------------------------------------
(* Variable groups *)
envVars == << cfgPath, workspaceFolders, existing, whichOut >>
resolveVars == << serverPath, probed, whichRan, resolutions >>
restartVars == << rpc, rwait, ron, rstops, rstarts, rinfos, rend, rbase >>
deactVars == << dpc, dwait, deactivations, dstops, disposals, dtrace >>
noteVars == << warnings, infos, libErrors, hostErrors >>
clientVars == << client, clientState, created, spawned, launched, lastCall >>

---------------------------------------------------------------------------
(* activate (l.27-40) and startLspClient (l.62-120) *)

\* l.64-70 with an existence check added on the configured path
resolveServerPathChecked ==
    IF Falsy(cfgPath) \/ ~StatOk(cfgPath)
    THEN findOxideLsp
    ELSE [path |-> cfgPath, probed |-> <<cfgPath>>, whichRan |-> FALSE]

\* l.64-70: the configured path if truthy, else the result of findOxideLsp
resolveServerPath ==
    IF Falsy(cfgPath)
    THEN findOxideLsp
    ELSE [path |-> cfgPath, probed |-> <<>>, whichRan |-> FALSE]

\* startLspClient, l.64-70: read the setting, search when it is empty
ResolveStep ==
    /\ actPc = "idle"
    /\ LET r == resolveServerPath
       IN /\ serverPath' = r.path
          /\ probed' = r.probed
          /\ whichRan' = r.whichRan
    /\ resolutions' = resolutions + 1
    /\ actPc' = "resolved"
    /\ UNCHANGED << envVars, clientVars, restartVars, deactVars, noteVars,
                    devServerTerminal, registered >>

\* l.72-78 raising instead of returning: activate() rejects
StartDisabledThrows ==
    /\ actPc = "resolved"
    /\ Falsy(serverPath)
    /\ warnings' = warnings + 1
    /\ hostErrors' = hostErrors + 1
    /\ actPc' = "threw"
    /\ UNCHANGED << envVars, clientVars, resolveVars, restartVars, deactVars,
                    infos, libErrors, devServerTerminal, registered >>

\* l.72-78 without the `return`: warns, then builds and starts a client anyway
StartDisabledFallThrough ==
    /\ actPc = "resolved"
    /\ Falsy(serverPath)
    /\ warnings' = warnings + 1
    /\ client' = [def |-> TRUE, command |-> serverPath]
    /\ created' = created + 1
    /\ lastCall' = [op |-> "start", on |-> "Initial"]
    /\ clientState' = StateAfterStart("Initial")
    /\ actPc' = "started"
    /\ UNCHANGED << envVars, resolveVars, restartVars, deactVars,
                    infos, libErrors, hostErrors,
                    spawned, launched, devServerTerminal, registered >>

\* startLspClient, l.72-78: no server path, warn and return
StartDisabled ==
    /\ actPc = "resolved"
    /\ Falsy(serverPath)
    /\ warnings' = warnings + 1
    /\ actPc' = "started"
    /\ UNCHANGED << envVars, clientVars, resolveVars, restartVars, deactVars,
                    infos, libErrors, hostErrors, devServerTerminal, registered >>

\* startLspClient, l.80-119: construct the client and call start(); the promise
\* goes into context.subscriptions and is not awaited
StartClient ==
    /\ actPc = "resolved"
    /\ ~Falsy(serverPath)
    /\ client' = [def |-> TRUE, command |-> serverPath]
    /\ created' = created + 1
    /\ lastCall' = [op |-> "start", on |-> "Initial"]
    /\ clientState' = StateAfterStart("Initial")
    /\ actPc' = "started"
    /\ UNCHANGED << envVars, resolveVars, restartVars, deactVars, noteVars,
                    spawned, launched, devServerTerminal, registered >>

\* activate, l.34: registerCommands
RegisterCommands ==
    /\ actPc = "started"
    /\ registered' = registered \cup {"commands"}
    /\ actPc' = "commands"
    /\ UNCHANGED << envVars, clientVars, resolveVars, restartVars, deactVars,
                    noteVars, devServerTerminal >>

\* activate, l.37-39: registerTreeViews, then activate returns
RegisterTreeViews ==
    /\ actPc = "commands"
    /\ registered' = registered \cup {"treeViews"}
    /\ actPc' = "activated"
    /\ UNCHANGED << envVars, clientVars, resolveVars, restartVars, deactVars,
                    noteVars, devServerTerminal >>

---------------------------------------------------------------------------
(* Outcomes of the pending start / stop of the client *)

\* the server process is spawned and initialized: the start promise resolves
LaunchOk ==
    /\ clientState = "Starting"
    /\ actPc \in {"started", "activated"}
    /\ ~MicrotaskPending
    /\ clientState' = "Running"
    /\ spawned' = Append(spawned, client.command)
    /\ launched' = launched + 1
    /\ SettleAll("onStart", "resolved")
    /\ UNCHANGED << envVars, resolveVars, noteVars, client, created, lastCall,
                    rpc, ron, rstops, rstarts, rinfos, rend, rbase,
                    dpc, deactivations, dstops, disposals, dtrace,
                    devServerTerminal, actPc, registered >>

\* the process fails to launch or the transport cannot be established: the
\* library reports the error and the start promise rejects
LaunchFail ==
    /\ clientState = "Starting"
    /\ actPc \in {"started", "activated"}
    /\ ~MicrotaskPending
    /\ clientState' = "StartFailed"
    /\ libErrors' = libErrors + 1
    /\ SettleAll("onStart", "rejected")
    /\ UNCHANGED << envVars, resolveVars, warnings, infos, hostErrors,
                    client, created, spawned, launched, lastCall,
                    rpc, ron, rstops, rstarts, rinfos, rend, rbase,
                    dpc, deactivations, dstops, disposals, dtrace,
                    devServerTerminal, actPc, registered >>

\* the pending stop completes: the stop promise resolves
StopComplete ==
    /\ clientState = "Stopping"
    /\ ~MicrotaskPending
    /\ clientState' = "Stopped"
    /\ SettleAll("onStop", "resolved")
    /\ UNCHANGED << envVars, resolveVars, noteVars,
                    client, created, spawned, launched, lastCall,
                    rpc, ron, rstops, rstarts, rinfos, rend, rbase,
                    dpc, deactivations, dstops, disposals, dtrace,
                    devServerTerminal, actPc, registered >>

---------------------------------------------------------------------------
(* restartLsp (l.327-333) *)

\* l.328-329: `if (client)`, then client.stop() is called and awaited
RestartInvoke(i) ==
    /\ actPc = "activated"
    /\ deactivations = 0
    /\ ~MicrotaskPending
    /\ rpc[i] = "idle"
    /\ \A j \in Restarts : j < i => rpc[j] # "idle"
    /\ ron' = [ron EXCEPT ![i] = HandleState]
    /\ rbase' = [rbase EXCEPT ![i] = launched]
    /\ IF client.def
       THEN /\ rstops' = [rstops EXCEPT ![i] = @ + 1]
            /\ lastCall' = [op |-> "stop", on |-> clientState]
            /\ rwait' = [rwait EXCEPT ![i] = StopPromise(clientState)]
            /\ clientState' = StateAfterStop(clientState)
            /\ rpc' = [rpc EXCEPT ![i] = "awaitStop"]
       ELSE /\ rpc' = [rpc EXCEPT ![i] = "done"]
            /\ UNCHANGED << rstops, lastCall, rwait, clientState >>
    /\ UNCHANGED << envVars, resolveVars, deactVars, noteVars, client, created,
                    spawned, launched, rstarts, rinfos, rend,
                    devServerTerminal, actPc, registered >>

\* l.330 without the `await`: start() is called and the handler goes straight on
RestartAfterStopNoAwait(i) ==
    /\ rpc[i] = "awaitStop"
    /\ rwait[i] = "resolved"
    /\ rstarts' = [rstarts EXCEPT ![i] = @ + 1]
    /\ lastCall' = [op |-> "start", on |-> clientState]
    /\ rwait' = [rwait EXCEPT ![i] = "resolved"]
    /\ clientState' = StateAfterStart(clientState)
    /\ rpc' = [rpc EXCEPT ![i] = "awaitStart"]
    /\ UNCHANGED << envVars, resolveVars, deactVars, noteVars, client, created,
                    spawned, launched, ron, rstops, rinfos, rend, rbase,
                    devServerTerminal, actPc, registered >>

\* l.329-330: the stop has resolved, client.start() is called and awaited
RestartAfterStop(i) ==
    /\ rpc[i] = "awaitStop"
    /\ rwait[i] = "resolved"
    /\ rstarts' = [rstarts EXCEPT ![i] = @ + 1]
    /\ lastCall' = [op |-> "start", on |-> clientState]
    /\ rwait' = [rwait EXCEPT ![i] = StartPromise(clientState)]
    /\ clientState' = StateAfterStart(clientState)
    /\ rpc' = [rpc EXCEPT ![i] = "awaitStart"]
    /\ UNCHANGED << envVars, resolveVars, deactVars, noteVars, client, created,
                    spawned, launched, ron, rstops, rinfos, rend, rbase,
                    devServerTerminal, actPc, registered >>

\* l.330-331: the start has resolved, the confirmation is shown
RestartConfirm(i) ==
    /\ rpc[i] = "awaitStart"
    /\ rwait[i] = "resolved"
    /\ infos' = infos + 1
    /\ rinfos' = [rinfos EXCEPT ![i] = @ + 1]
    /\ rend' = [rend EXCEPT ![i] = HandleState]
    /\ rwait' = [rwait EXCEPT ![i] = "none"]
    /\ rpc' = [rpc EXCEPT ![i] = "done"]
    /\ UNCHANGED << envVars, resolveVars, deactVars, clientVars,
                    warnings, libErrors, hostErrors, ron, rstops, rstarts, rbase,
                    devServerTerminal, actPc, registered >>

\* l.329 / l.330: an awaited promise rejected; restartLsp has no handler, the
\* rejection leaves the command handler
RestartThrow(i) ==
    /\ rpc[i] \in {"awaitStop", "awaitStart"}
    /\ rwait[i] = "rejected"
    /\ hostErrors' = hostErrors + 1
    /\ rend' = [rend EXCEPT ![i] = HandleState]
    /\ rwait' = [rwait EXCEPT ![i] = "none"]
    /\ rpc' = [rpc EXCEPT ![i] = "threw"]
    /\ UNCHANGED << envVars, resolveVars, deactVars, clientVars,
                    warnings, infos, libErrors, ron, rstops, rstarts, rinfos, rbase,
                    devServerTerminal, actPc, registered >>

---------------------------------------------------------------------------
(* deactivate (l.45-57) *)

\* l.49-55: dispose the dev-server terminal if set, then `if (client)` call
\* client.stop() and await it
DeactivateInvoke ==
    /\ actPc = "activated"
    /\ ~MicrotaskPending
    /\ dpc \in {"idle", "done", "threw"}
    /\ deactivations < MaxDeactivations
    /\ deactivations' = deactivations + 1
    /\ IF devServerTerminal # Undefined
       THEN /\ devServerTerminal' = "disposed"
            /\ disposals' = disposals + 1
       ELSE UNCHANGED << devServerTerminal, disposals >>
    /\ dtrace' = (IF devServerTerminal # Undefined THEN <<"dispose">> ELSE <<>>)
                  \o (IF client.def THEN <<"stop">> ELSE <<"return">>)
    /\ IF client.def
       THEN /\ dstops' = [dstops EXCEPT ![deactivations + 1] = @ + 1]
            /\ lastCall' = [op |-> "stop", on |-> clientState]
            /\ dwait' = StopPromise(clientState)
            /\ clientState' = StateAfterStop(clientState)
            /\ dpc' = "awaitStop"
       ELSE /\ dpc' = "done"
            /\ UNCHANGED << dstops, lastCall, dwait, clientState >>
    /\ UNCHANGED << envVars, resolveVars, restartVars, noteVars, client, created,
                    spawned, launched, actPc, registered >>

\* l.55 without the `await`: deactivate returns while the stop is still pending
DeactivateReturnNoAwait ==
    /\ dpc = "awaitStop"
    /\ dwait \in {"onStop", "resolved"}
    /\ dwait' = "none"
    /\ dpc' = "done"
    /\ dtrace' = Append(dtrace, "return")
    /\ UNCHANGED << envVars, resolveVars, restartVars, noteVars, clientVars,
                    deactivations, dstops, disposals,
                    devServerTerminal, actPc, registered >>

\* l.55-57: the stop has resolved, deactivate returns
DeactivateReturn ==
    /\ dpc = "awaitStop"
    /\ dwait = "resolved"
    /\ dwait' = "none"
    /\ dpc' = "done"
    /\ dtrace' = Append(dtrace, "return")
    /\ UNCHANGED << envVars, resolveVars, restartVars, noteVars, clientVars,
                    deactivations, dstops, disposals,
                    devServerTerminal, actPc, registered >>

\* l.55: the stop rejected; deactivate has no handler
DeactivateThrow ==
    /\ dpc = "awaitStop"
    /\ dwait = "rejected"
    /\ hostErrors' = hostErrors + 1
    /\ dwait' = "none"
    /\ dpc' = "threw"
    /\ dtrace' = Append(dtrace, "throw")
    /\ UNCHANGED << envVars, resolveVars, restartVars, clientVars,
                    warnings, infos, libErrors,
                    deactivations, dstops, disposals,
                    devServerTerminal, actPc, registered >>

---------------------------------------------------------------------------
(* startDevServer (l.246-257) and stopDevServer (l.259-269) *)

startDevServer ==
    /\ actPc = "activated"
    /\ deactivations = 0
    /\ ~MicrotaskPending
    /\ devServerTerminal = Undefined
    /\ devServerTerminal' = "open"
    /\ UNCHANGED << envVars, resolveVars, restartVars, deactVars, noteVars,
                    clientVars, actPc, registered >>

stopDevServer ==
    /\ actPc = "activated"
    /\ deactivations = 0
    /\ ~MicrotaskPending
    /\ devServerTerminal # Undefined
    /\ devServerTerminal' = Undefined
    /\ UNCHANGED << envVars, resolveVars, restartVars, deactVars, noteVars,
                    clientVars, actPc, registered >>

---------------------------------------------------------------------------
(* Specifications *)

Activation ==
    \/ ResolveStep
    \/ StartDisabled
    \/ StartClient
    \/ RegisterCommands
    \/ RegisterTreeViews

NextActivate ==
    \/ Activation
    \/ LaunchOk
    \/ LaunchFail

Next ==
    \/ Activation
    \/ LaunchOk
    \/ LaunchFail
    \/ StopComplete
    \/ \E i \in Restarts : RestartInvoke(i)
    \/ \E i \in Restarts : RestartAfterStop(i)
    \/ \E i \in Restarts : RestartConfirm(i)
    \/ \E i \in Restarts : RestartThrow(i)
    \/ DeactivateInvoke
    \/ DeactivateReturn
    \/ DeactivateThrow
    \/ startDevServer
    \/ stopDevServer

Spec == Init /\ [][Next]_vars

SpecActivate == InitActivate /\ [][NextActivate]_vars

\* the event loop runs every continuation of activate() that is ready
SpecActivateFair == SpecActivate /\ WF_vars(Activation)

---------------------------------------------------------------------------
(* Properties *)

NoValue == {Undefined, ""}

\* the search order of the specification, written out candidate by candidate
FolderList == IF workspaceFolders.def THEN workspaceFolders.list ELSE <<>>

NumCandidates == 2 * Len(FolderList) + 1

Candidate(n) ==
    IF n > 2 * Len(FolderList) THEN "/ext/bin/oxide-lsp"
    ELSE FolderList[(n + 1) \div 2] \o
         (IF n % 2 = 1 THEN "/target/release/oxide-lsp" ELSE "/target/debug/oxide-lsp")

Hits == { n \in 1..NumCandidates : Candidate(n) \in existing }

FirstHit == CHOOSE n \in Hits : \A m \in Hits : n <= m

PathTokens == { n \in 1..Len(whichOut.stdout) : whichOut.stdout[n] # NL }

\* what the PATH lookup contributes: the first path printed, if the lookup succeeded
PathLookup ==
    IF whichOut.ok /\ PathTokens # {}
    THEN whichOut.stdout[CHOOSE n \in PathTokens : \A m \in PathTokens : n <= m]
    ELSE Undefined

\* C1: when no path is configured and findOxideLsp finds nothing, startLspClient
\* leaves `client` undefined (handle Absent), shows exactly one warning, and
\* neither constructs nor starts a LanguageClient (no process is spawned).
C1_NoPathStaysAbsent ==
    (/\ actPc \in {"started", "commands", "activated"}
     /\ cfgPath \in NoValue
     /\ Hits = {}
     /\ PathLookup = Undefined)
    => /\ ~client.def
       /\ HandleState = "Absent"
       /\ warnings = 1
       /\ created = 0
       /\ lastCall.op = "none"
       /\ spawned = <<>>
       /\ launched = 0

C1_Witness ==
    /\ actPc = "activated"
    /\ cfgPath \in NoValue
    /\ Hits = {}
    /\ PathLookup = Undefined
    /\ warnings = 1
    /\ ~client.def

\* C4: a non-empty configured path is returned as it is: nothing is stat'ed, no
\* workspace, bundled or PATH candidate is consulted, whether or not the
\* configured path exists.
C4_ConfiguredPathTrusted ==
    (actPc # "idle" /\ cfgPath \notin NoValue)
    => /\ serverPath = cfgPath
       /\ probed = <<>>
       /\ ~whichRan
       /\ (actPc \in {"started", "commands", "activated"}
            => client.def /\ client.command = cfgPath /\ warnings = 0)

C4_Witness ==
    /\ actPc = "activated"
    /\ cfgPath = ConfiguredPath
    /\ ConfiguredPath \notin existing
    /\ Hits # {}
    /\ client.def
    /\ client.command = ConfiguredPath

\* C5: with no configured path, the result is the first existing candidate in
\* the order root 1 release, root 1 debug, root 2 release, ..., bundled binary,
\* PATH lookup; exactly the candidates up to the returned one are stat'ed and
\* the PATH lookup runs only when no candidate file exists.
C5_SearchOrder ==
    (actPc # "idle" /\ cfgPath \in NoValue)
    => IF Hits # {}
       THEN /\ serverPath = Candidate(FirstHit)
            /\ probed = [n \in 1..FirstHit |-> Candidate(n)]
            /\ ~whichRan
       ELSE /\ probed = [n \in 1..NumCandidates |-> Candidate(n)]
            /\ whichRan
            /\ IF PathLookup = Undefined THEN serverPath \in NoValue
               ELSE serverPath = PathLookup

\* a root holding only the debug build resolves to that root's debug path
C5_Witness ==
    /\ actPc = "activated"
    /\ cfgPath \in NoValue
    /\ FolderList = <<"/proj">>
    /\ existing = {"/proj/target/debug/oxide-lsp"}
    /\ serverPath = "/proj/target/debug/oxide-lsp"
    /\ probed = <<"/proj/target/release/oxide-lsp", "/proj/target/debug/oxide-lsp">>

\* C6: when no candidate file exists and the PATH lookup fails or prints nothing,
\* the search still visits every candidate (each failed stat is swallowed), runs
\* the PATH lookup, yields no path, and nothing is raised: startLspClient goes on
\* to its warning.
C6_NothingFoundIsAbsent ==
    (/\ actPc # "idle"
     /\ cfgPath \in NoValue
     /\ Hits = {}
     /\ PathLookup = Undefined)
    => /\ serverPath \in NoValue
       /\ Len(probed) = NumCandidates
       /\ \A n \in 1..NumCandidates : probed[n] = Candidate(n)
       /\ whichRan
       /\ hostErrors = 0
       /\ (actPc = "resolved" => ENABLED StartDisabled)

C6_Witness ==
    /\ actPc = "started"
    /\ cfgPath \in NoValue
    /\ Len(FolderList) >= 2
    /\ Hits = {}
    /\ whichOut.ok
    /\ PathLookup = Undefined
    /\ serverPath = ""
    /\ Len(probed) = NumCandidates
    /\ warnings = 1

\* C2: a restartLsp call made while the handle is Running issues exactly one
\* client.stop() and then exactly one client.start() on the same client object
\* (same command, the path is not resolved again); when the launch succeeds it
\* shows exactly one confirmation, only after a fresh launch has completed, with
\* the handle Running; it shows none when the launch fails.
C2_RestartWhileRunning ==
    \A i \in Restarts :
        ron[i] = "Running" =>
            /\ resolutions = 1
            /\ created = 1
            /\ client.command = serverPath
            /\ \A n \in 1..Len(spawned) : spawned[n] = serverPath
            /\ rpc[i] = "awaitStop" => rstops[i] = 1 /\ rstarts[i] = 0 /\ rinfos[i] = 0
            /\ rpc[i] = "awaitStart" => rstops[i] = 1 /\ rstarts[i] = 1 /\ rinfos[i] = 0
            /\ rpc[i] = "done" =>
                   /\ rstops[i] = 1 /\ rstarts[i] = 1 /\ rinfos[i] = 1
                   /\ rend[i] = "Running"
                   /\ launched > rbase[i]
            /\ rpc[i] = "threw" =>
                   /\ rstops[i] = 1 /\ rstarts[i] = 1 /\ rinfos[i] = 0
                   /\ libErrors > 0

C2_Witness ==
    \E i \in Restarts :
        /\ ron[i] = "Running"
        /\ rpc[i] = "done"
        /\ rinfos[i] = 1
        /\ clientState = "Running"
        /\ Len(spawned) = 2

\* C3: after a deactivate() that returned normally, a second deactivate() finds
\* the handle Absent and issues no further client.stop().
C3_SecondStopIsNoOp ==
    \A k \in Deactivations : (k > 1 /\ hostErrors = 0) => dstops[k] = 0

\* C7: the handle moves only along Absent -> Starting -> Running -> Stopping ->
\* Absent (a failed launch tears it down to Absent), stop is only ever called on
\* a Running client and start only on an Absent one.
C7_LifecycleOrder ==
    [][ /\ \/ HandleState' = HandleState
           \/ << HandleState, HandleState' >> \in
                 { << "Absent", "Starting" >>, << "Starting", "Running" >>,
                   << "Running", "Stopping" >>, << "Stopping", "Absent" >>,
                   << "Starting", "Absent" >> }
        /\ lastCall'.op = "stop" => lastCall'.on = "Running"
        /\ lastCall'.op = "start" => lastCall'.on \in {"Initial", "Stopped", "StartFailed"}
      ]_vars

StopsInFlight ==
    Cardinality({ i \in Restarts : rwait[i] = "onStop" })
        + (IF dwait = "onStop" THEN 1 ELSE 0)

StartsInFlight == Cardinality({ i \in Restarts : rwait[i] = "onStart" })

\* C8: overlapping invocations never have two stops or two starts in flight on
\* the handle, and start is never called while the handle is Starting.
C8_Serialized ==
    /\ StopsInFlight <= 1
    /\ StartsInFlight <= 1
    /\ ~(lastCall.op = "start" /\ lastCall.on = "Starting")

\* C9: a failed launch is reported once, leaves the handle Absent, is not
\* retried, and is not re-thrown to the host: no restartLsp call that reached
\* its start step ends by throwing.
C9_FailureAbsorbed ==
    /\ clientState = "StartFailed" => HandleState = "Absent" /\ libErrors >= 1
    /\ \A i \in Restarts : ~(rpc[i] = "threw" /\ rstarts[i] = 1)

\* C10: activate() never throws, registers commands and tree views only after
\* the client start step (warning or client.start()), and always reaches the
\* end of its registration, whatever the resolution or the launch gave.
C10_ActivationCompletes ==
    /\ [](hostErrors = 0)
    /\ [](registered # {} =>
            /\ actPc \in {"commands", "activated"}
            /\ warnings + created = 1
            /\ (created = 1 => lastCall.op = "start"))
    /\ <>(actPc = "activated" /\ registered = {"commands", "treeViews"})

C10_Witness ==
    /\ actPc = "activated"
    /\ registered = {"commands", "treeViews"}
    /\ serverPath \in NoValue
    /\ warnings = 1
    /\ created = 0
    /\ hostErrors = 0

\* what deactivate() has to do before it awaits: dispose the terminal if there
\* is one, then stop the client if there is one
DeactivatePrefix ==
    (IF devServerTerminal # Undefined THEN <<"dispose">> ELSE <<>>)
        \o (IF client.def THEN <<"stop">> ELSE <<>>)

\* C11: deactivate() disposes the dev-server terminal first when there is one,
\* then calls client.stop() when there is a client, and returns only once that
\* stop is over (the client is neither Running nor Stopping when it returns); a
\* missing terminal or client just drops its step, and with no client
\* deactivate() returns at once and nothing is raised.
C11_DeactivateOrder ==
    [][ /\ deactivations' > 0 =>
            /\ disposals' = (IF devServerTerminal' # Undefined THEN deactivations' ELSE 0)
            /\ dpc' = "awaitStop" => client'.def /\ dtrace' = DeactivatePrefix'
            /\ dpc' = "done" => dtrace' = Append(DeactivatePrefix', "return")
            /\ dpc' = "threw" => client'.def /\ dtrace' = Append(DeactivatePrefix', "throw")
            /\ ~client'.def => dpc' = "done" /\ hostErrors' = 0
        /\ (dpc = "awaitStop" /\ dpc' = "done") =>
            /\ dstops'[deactivations'] = 1
            /\ clientState' \notin {"Running", "Stopping"}
      ]_vars

C11_Witness ==
    /\ deactivations = 1
    /\ dpc = "done"
    /\ dtrace = <<"dispose", "stop", "return">>
    /\ devServerTerminal = "disposed"
    /\ clientState = "Stopped"
    /\ hostErrors = 0

====
